---- MODULE Spec2Model ----
(***************************************************************************)
(* Model of the ISO-8601 timestamp parser in src/rust/iso-8601/src/lib.rs. *)
(*                                                                         *)
(* A text is a sequence of UTF-8 bytes.  An ASCII byte is written as the   *)
(* one-character string it encodes; a two-byte character is the pair of    *)
(* bytes "LEAD", "CONT".  Offsets into a text are byte offsets, as in      *)
(* Rust, and a slice is only defined between character boundaries.         *)
(*                                                                         *)
(* The recursion of parse_state is modelled twice from the same one-step   *)
(* operators: as the functions parse / tz_parse / from / parse_datetime,   *)
(* and as a step machine whose stack of pending fields is the chain of     *)
(* parse_state frames waiting to run self.set(field).                      *)
(***************************************************************************)
EXTENDS Integers, Sequences, FiniteSets, TLC

VARIABLES input, shape, pc, state, tzstate, pos, pending, values, result,
          consumed, writes

vars == <<input, shape, pc, state, tzstate, pos, pending, values, result,
          consumed, writes>>

-----------------------------------------------------------------------------
(* Option values *)

None == [some |-> FALSE]

Some(v) == [some |-> TRUE, v |-> v]

-----------------------------------------------------------------------------
(* Texts: byte sequences, character boundaries, checked slices *)

Digits == {"0", "1", "2", "3", "4", "5", "6", "7", "8", "9"}

DigitVal == [c \in Digits |->
               CASE c = "0" -> 0 [] c = "1" -> 1 [] c = "2" -> 2 [] c = "3" -> 3
                 [] c = "4" -> 4 [] c = "5" -> 5 [] c = "6" -> 6 [] c = "7" -> 7
                 [] c = "8" -> 8 [] c = "9" -> 9]

\* str::is_char_boundary: offset i (0-based) does not fall inside a character
IsCharBoundary(s, i) ==
    /\ i >= 0
    /\ i <= Len(s)
    /\ (i < Len(s) => s[i + 1] # "CONT")

\* str::get(a..b): the slice, or None when out of range or not on boundaries
StrGet(s, a, b) ==
    IF a <= b /\ IsCharBoundary(s, a) /\ IsCharBoundary(s, b)
    THEN Some(SubSeq(s, a + 1, b))
    ELSE None

\* the text from byte offset a on (the callee's view of &str[a..])
Suffix(s, a) == SubSeq(s, a + 1, Len(s))

RECURSIVE DigitsValue(_)
DigitsValue(s) ==
    IF Len(s) = 0 THEN 0
    ELSE 10 * DigitsValue(SubSeq(s, 1, Len(s) - 1)) + DigitVal[s[Len(s)]]

AllDigits(s) == \A i \in 1..Len(s) : s[i] \in Digits

\* str::parse::<i32>() (signed) and str::parse::<u32>() (not signed):
\* an optional leading '+', for signed types an optional leading '-',
\* then one or more decimal digits and nothing else
ParseInt(s, signed) ==
    IF Len(s) = 0 THEN None
    ELSE IF s[1] \in {"+", "-"} /\ Len(s) = 1 THEN None
    ELSE IF s[1] = "+" THEN
        (IF AllDigits(Suffix(s, 1)) THEN Some(DigitsValue(Suffix(s, 1))) ELSE None)
    ELSE IF s[1] = "-" /\ signed THEN
        (IF AllDigits(Suffix(s, 1)) THEN Some(0 - DigitsValue(Suffix(s, 1))) ELSE None)
    ELSE IF AllDigits(s) THEN Some(DigitsValue(s))
    ELSE None

-----------------------------------------------------------------------------
(* The aggregator *)

TimezoneValues_default == [sign |-> TRUE, hours |-> 0, minutes |-> 0]

DateTimeValues_default ==
    [year |-> 1970, month |-> 1, date |-> 1,
     hours |-> 0, minutes |-> 0, seconds |-> 0,
     timezone |-> TimezoneValues_default]

\* set with the minutes and seconds arms exchanged
set_exchanged(v, field) ==
    CASE field.state = "Year"    -> [v EXCEPT !.year = field.value]
      [] field.state = "Month"   -> [v EXCEPT !.month = field.value]
      [] field.state = "Date"    -> [v EXCEPT !.date = field.value]
      [] field.state = "Hours"   -> [v EXCEPT !.hours = field.value]
      [] field.state = "Minutes" -> [v EXCEPT !.seconds = field.value]
      [] field.state = "Seconds" -> [v EXCEPT !.minutes = field.value]
      [] OTHER                   -> [v EXCEPT !.timezone = field.value]

set(v, field) ==
    CASE field.state = "Year"    -> [v EXCEPT !.year = field.value]
      [] field.state = "Month"   -> [v EXCEPT !.month = field.value]
      [] field.state = "Date"    -> [v EXCEPT !.date = field.value]
      [] field.state = "Hours"   -> [v EXCEPT !.hours = field.value]
      [] field.state = "Minutes" -> [v EXCEPT !.minutes = field.value]
      [] field.state = "Seconds" -> [v EXCEPT !.seconds = field.value]
      [] OTHER                   -> [v EXCEPT !.timezone = field.value]

secs(tz) ==
    (tz.hours * 60 + tz.minutes) * 60 * (IF tz.sign THEN 1 ELSE 0 - 1)

-----------------------------------------------------------------------------
(* ParserState *)

MainStates == {"Year", "Month", "Date", "Hours", "Minutes", "Seconds"}

\* next that goes from the minutes straight to the offset
next_skips_seconds(st) ==
    CASE st = "Year"    -> "Month"
      [] st = "Month"   -> "Date"
      [] st = "Date"    -> "Hours"
      [] st = "Hours"   -> "Minutes"
      [] st = "Minutes" -> "Timezone"
      [] st = "Seconds" -> "Timezone"
      [] OTHER          -> "None"

next(st) ==
    CASE st = "Year"    -> "Month"
      [] st = "Month"   -> "Date"
      [] st = "Date"    -> "Hours"
      [] st = "Hours"   -> "Minutes"
      [] st = "Minutes" -> "Seconds"
      [] st = "Seconds" -> "Timezone"
      [] OTHER          -> "None"

size(st) ==
    CASE st = "Year" -> 4
      [] st \in {"Month", "Date", "Hours", "Minutes", "Seconds"} -> 2
      [] OTHER -> 1

prefix(st) ==
    CASE st \in {"Month", "Date"}      -> "Dash"
      [] st = "Hours"                  -> "T"
      [] st \in {"Minutes", "Seconds"} -> "Colon"
      [] OTHER                         -> "None"

\* ParserState::parse that takes a text that is no number for 0
field_parse_or_zero(st, sub) ==
    LET val == ParseInt(sub, st = "Year") IN
    IF st \in {"Year", "Month", "Date", "Hours", "Minutes", "Seconds"}
    THEN (IF val.some THEN val ELSE Some(0))
    ELSE None

\* ParserState::parse: the year is an i32, the other fields are u32
field_parse(st, sub) ==
    CASE st = "Year" -> ParseInt(sub, TRUE)
      [] st \in {"Month", "Date", "Hours", "Minutes", "Seconds"} -> ParseInt(sub, FALSE)
      [] OTHER -> None

\* parse_from that skips a character before month, day, minute and second
\* whether or not it is the separator
parse_from_always_skips(st, str) ==
    LET first == StrGet(str, 0, 1) IN
    CASE prefix(st) \in {"Dash", "Colon"} ->
           IF first.some THEN Some(1) ELSE None
      [] prefix(st) = "T" ->
           IF first.some /\ (first.v = <<"T">> \/ first.v = <<" ">>) THEN Some(1) ELSE None
      [] OTHER -> Some(0)

\* parse_from that treats the date/time separator like the other separators
parse_from_optional_T(st, str) ==
    LET first == StrGet(str, 0, 1) IN
    CASE prefix(st) = "Dash" ->
           IF first.some THEN Some(IF first.v = <<"-">> THEN 1 ELSE 0) ELSE None
      [] prefix(st) = "Colon" ->
           IF first.some THEN Some(IF first.v = <<":">> THEN 1 ELSE 0) ELSE None
      [] prefix(st) = "T" ->
           IF first.some
           THEN Some(IF first.v = <<"T">> \/ first.v = <<" ">> THEN 1 ELSE 0)
           ELSE None
      [] OTHER -> Some(0)

\* parse_from that accepts only 'T' as the date/time separator
parse_from_T_only(st, str) ==
    LET first == StrGet(str, 0, 1) IN
    CASE prefix(st) = "Dash" ->
           IF first.some THEN Some(IF first.v = <<"-">> THEN 1 ELSE 0) ELSE None
      [] prefix(st) = "Colon" ->
           IF first.some THEN Some(IF first.v = <<":">> THEN 1 ELSE 0) ELSE None
      [] prefix(st) = "T" ->
           IF first.some /\ first.v = <<"T">> THEN Some(1) ELSE None
      [] OTHER -> Some(0)

parse_from(st, str) ==
    LET first == StrGet(str, 0, 1) IN
    CASE prefix(st) = "Dash" ->
           IF first.some THEN Some(IF first.v = <<"-">> THEN 1 ELSE 0) ELSE None
      [] prefix(st) = "Colon" ->
           IF first.some THEN Some(IF first.v = <<":">> THEN 1 ELSE 0) ELSE None
      [] prefix(st) = "T" ->
           IF first.some /\ (first.v = <<"T">> \/ first.v = <<" ">>) THEN Some(1) ELSE None
      [] OTHER -> Some(0)

\* a field substring that ends at the end of the text when the text is short
field_slice_clamped(st, str, from) ==
    LET to == IF from + size(st) <= Len(str) THEN from + size(st) ELSE Len(str)
    IN StrGet(str, from, to)

\* the field substring of parse_state: str.get(from..from + size)
field_slice(st, str, from) == StrGet(str, from, from + size(st))

\* parse_state up to the test "if let Some(field) = field":
\* the parsed value, where the field starts and how far the text advances
read_field(st, str) ==
    LET from == parse_from(st, str) IN
    IF ~from.some THEN None
    ELSE LET sub == field_slice(st, str, from.v) IN
         IF ~sub.some THEN None
         ELSE LET val == field_parse(st, sub.v) IN
              IF ~val.some THEN None
              ELSE Some([value |-> val.v, from |-> from.v, adv |-> from.v + size(st)])

\* &str[a..] panics unless a is in range and on a character boundary
SliceFromOk(str, a) == IsCharBoundary(str, a)

-----------------------------------------------------------------------------
(* TimezoneValues: one step of each state.  cont: whether the parser goes   *)
(* on to the state nxt with the text advanced by adv bytes.                 *)

TzStop(tz) == [tz |-> tz, cont |-> FALSE, nxt |-> "None", adv |-> 0, wrote |-> FALSE]

parse_sign(tz, str) ==
    LET first == StrGet(str, 0, 1) IN
    IF first.some /\ (first.v = <<"+">> \/ first.v = <<"-">>)
    THEN [tz |-> [tz EXCEPT !.sign = (first.v = <<"+">>)],
          cont |-> TRUE, nxt |-> "Hours", adv |-> 1, wrote |-> TRUE]
    ELSE TzStop(tz)

\* parse_hours that writes the hours into the minutes as well
parse_hours_also_minutes(tz, str) ==
    LET two == StrGet(str, 0, 2)
        hours == IF two.some THEN ParseInt(two.v, TRUE) ELSE None
    IN IF hours.some
       THEN [tz |-> [tz EXCEPT !.hours = hours.v, !.minutes = hours.v],
             cont |-> TRUE, nxt |-> "Minutes", adv |-> 2, wrote |-> TRUE]
       ELSE TzStop(tz)

parse_hours(tz, str) ==
    LET two == StrGet(str, 0, 2)
        hours == IF two.some THEN ParseInt(two.v, TRUE) ELSE None
    IN IF hours.some
       THEN [tz |-> [tz EXCEPT !.hours = hours.v],
             cont |-> TRUE, nxt |-> "Minutes", adv |-> 2, wrote |-> TRUE]
       ELSE TzStop(tz)

\* parse_minutes that stops at a ':' instead of skipping it
parse_minutes_colon_stops(tz, str) ==
    LET first == StrGet(str, 0, 1) IN
    IF ~first.some THEN TzStop(tz)
    ELSE IF first.v = <<":">> THEN TzStop(tz)
    ELSE LET two == StrGet(str, 0, 2)
             minutes == IF two.some THEN ParseInt(two.v, TRUE) ELSE None
         IN IF minutes.some
            THEN [tz |-> [tz EXCEPT !.minutes = minutes.v],
                  cont |-> FALSE, nxt |-> "None", adv |-> 2, wrote |-> TRUE]
            ELSE TzStop(tz)

\* parse_minutes that recurses on the same text at a ':' without skipping it
parse_minutes_colon_kept(tz, str) ==
    LET first == StrGet(str, 0, 1) IN
    IF ~first.some THEN TzStop(tz)
    ELSE IF first.v = <<":">>
    THEN [tz |-> tz, cont |-> TRUE, nxt |-> "Minutes", adv |-> 0, wrote |-> FALSE]
    ELSE LET two == StrGet(str, 0, 2)
             minutes == IF two.some THEN ParseInt(two.v, TRUE) ELSE None
         IN IF minutes.some
            THEN [tz |-> [tz EXCEPT !.minutes = minutes.v],
                  cont |-> FALSE, nxt |-> "None", adv |-> 2, wrote |-> TRUE]
            ELSE TzStop(tz)

\* parse_minutes that goes on reading minutes after it has recorded them
parse_minutes_reads_on(tz, str) ==
    LET first == StrGet(str, 0, 1) IN
    IF ~first.some THEN TzStop(tz)
    ELSE IF first.v = <<":">>
    THEN [tz |-> tz, cont |-> TRUE, nxt |-> "Minutes", adv |-> 1, wrote |-> FALSE]
    ELSE LET two == StrGet(str, 0, 2)
             minutes == IF two.some THEN ParseInt(two.v, TRUE) ELSE None
         IN IF minutes.some
            THEN [tz |-> [tz EXCEPT !.minutes = minutes.v],
                  cont |-> TRUE, nxt |-> "Minutes", adv |-> 2, wrote |-> TRUE]
            ELSE TzStop(tz)

\* parse_minutes that records only minutes below 60
parse_minutes_range_checked(tz, str) ==
    LET first == StrGet(str, 0, 1) IN
    IF ~first.some THEN TzStop(tz)
    ELSE IF first.v = <<":">>
    THEN [tz |-> tz, cont |-> TRUE, nxt |-> "Minutes", adv |-> 1, wrote |-> FALSE]
    ELSE LET two == StrGet(str, 0, 2)
             minutes == IF two.some THEN ParseInt(two.v, TRUE) ELSE None
         IN IF minutes.some /\ minutes.v < 60
            THEN [tz |-> [tz EXCEPT !.minutes = minutes.v],
                  cont |-> FALSE, nxt |-> "None", adv |-> 2, wrote |-> TRUE]
            ELSE TzStop(tz)

parse_minutes(tz, str) ==
    LET first == StrGet(str, 0, 1) IN
    IF ~first.some THEN TzStop(tz)
    ELSE IF first.v = <<":">>
    THEN [tz |-> tz, cont |-> TRUE, nxt |-> "Minutes", adv |-> 1, wrote |-> FALSE]
    ELSE LET two == StrGet(str, 0, 2)
             minutes == IF two.some THEN ParseInt(two.v, TRUE) ELSE None
         IN IF minutes.some
            THEN [tz |-> [tz EXCEPT !.minutes = minutes.v],
                  cont |-> FALSE, nxt |-> "None", adv |-> 2, wrote |-> TRUE]
            ELSE TzStop(tz)

tz_step(tz, str, st) ==
    CASE st = "Sign"  -> parse_sign(tz, str)
      [] st = "Hours" -> parse_hours(tz, str)
      [] OTHER        -> parse_minutes(tz, str)

RECURSIVE tz_parse(_, _, _)
tz_parse(tz, str, st) ==
    LET r == tz_step(tz, str, st) IN
    IF r.cont THEN tz_parse(r.tz, Suffix(str, r.adv), r.nxt) ELSE r.tz

-----------------------------------------------------------------------------
(* DateTimeValues::parse / parse_state / from as functions *)

RECURSIVE parse(_, _, _)
parse(v, str, st) ==
    IF st = "Timezone"
    THEN [v EXCEPT !.timezone = tz_parse(v.timezone, str, "Sign")]
    ELSE LET r == read_field(st, str) IN
         IF r.some
         THEN set(parse(v, Suffix(str, r.v.adv), next(st)),
                  [state |-> st, value |-> r.v.value])
         ELSE v

from(str) == parse(DateTimeValues_default, str, "Year")

-----------------------------------------------------------------------------
(* The instant constructor (chrono) *)

SecsPerDay == 86400

IsLeapYear(y) == (y % 4 = 0 /\ y % 100 # 0) \/ y % 400 = 0

DaysInMonth(y, m) ==
    CASE m \in {1, 3, 5, 7, 8, 10, 12} -> 31
      [] m \in {4, 6, 9, 11}           -> 30
      [] m = 2                         -> IF IsLeapYear(y) THEN 29 ELSE 28
      [] OTHER                         -> 0

\* FixedOffset::east_opt
east_opt(s) == IF 0 - SecsPerDay < s /\ s < SecsPerDay THEN Some(s) ELSE None

\* TimeZone::with_ymd_and_hms(..).single() for a fixed offset
with_ymd_and_hms(tz, y, m, d, h, mi, s) ==
    IF /\ m \in 1..12
       /\ d \in 1..DaysInMonth(y, m)
       /\ h \in 0..23
       /\ mi \in 0..59
       /\ s \in 0..59
    THEN Some([year |-> y, month |-> m, date |-> d, hours |-> h,
               minutes |-> mi, seconds |-> s, offset |-> tz])
    ELSE None

\* construct that falls back to UTC when the offset is refused
construct_utc_fallback(v) ==
    LET tz == east_opt(secs(v.timezone)) IN
    with_ymd_and_hms(IF tz.some THEN tz.v ELSE 0,
                     v.year, v.month, v.date, v.hours, v.minutes, v.seconds)

\* parse_datetime after DateTimeValues::from
construct(v) ==
    LET tz == east_opt(secs(v.timezone)) IN
    IF tz.some
    THEN with_ymd_and_hms(tz.v, v.year, v.month, v.date, v.hours, v.minutes, v.seconds)
    ELSE None

parse_datetime(str) == construct(from(str))

-----------------------------------------------------------------------------
(* Input texts *)

MaxTail == 2

MaxColons == 2

Years == {<<"2", "0", "2", "4">>, <<"2", "0", "2", "3">>}

Months == {<<"0", "2">>, <<"1", "3">>}

Days == {<<"1", "1">>, <<"2", "9">>}

\* hour, minute and second texts of a time of day
TimeTexts ==
    {<<<<"1", "4">>, <<"1", "5">>, <<"4", "5">>>>,
     <<<<"2", "5">>, <<"1", "5">>, <<"4", "5">>>>,
     <<<<"0", "9">>, <<"6", "0">>, <<"6", "1">>>>}

OffsetHourTexts == {<<"0", "5">>, <<"2", "3">>}

OffsetMinuteTexts == {<<"3", "0">>, <<"9", "9">>}

Dashes == {<<>>, <<"-">>}

Colons == {<<>>, <<":">>}

DateTimeSeparators == {<<"T">>, <<" ">>}

Signs == {<<"+">>, <<"-">>}

Opt(present, S) == IF present THEN S ELSE {<<>>}

\* how a well-formed timestamp was written: the text of each field and
\* separator, empty for everything after the last field (cut fields)
NoShape ==
    [cut |-> 0, y |-> <<>>, d1 |-> <<>>, m |-> <<>>, d2 |-> <<>>, d |-> <<>>,
     t |-> <<>>, h |-> <<>>, c1 |-> <<>>, mi |-> <<>>, c2 |-> <<>>, s |-> <<>>,
     sg |-> <<>>, zh |-> <<>>, zc |-> <<>>, zm |-> <<>>]

Build(sh) ==
    sh.y \o sh.d1 \o sh.m \o sh.d2 \o sh.d \o sh.t \o sh.h \o sh.c1 \o sh.mi
         \o sh.c2 \o sh.s \o sh.sg \o sh.zh \o sh.zc \o sh.zm

ExtendedText ==
    <<"2", "0", "2", "4", "-", "0", "2", "-", "1", "1", "T", "1", "4", ":",
      "1", "5", ":", "4", "5", "+", "0", "5", ":", "3", "0">>

BasicText ==
    <<"2", "0", "2", "4", "0", "2", "1", "1", "T", "1", "4",
      "1", "5", "4", "5", "+", "0", "5", "3", "0">>

ThroughSeconds == SubSeq(ExtendedText, 1, 19)

TailChars ==
    {<<"1">>, <<"+">>, <<"-">>, <<":">>, <<"T">>, <<" ">>, <<"x">>, <<"LEAD", "CONT">>}

RECURSIVE Tails(_)
Tails(n) ==
    IF n = 0 THEN {<<>>}
    ELSE Tails(n - 1) \cup {t \o c : t \in Tails(n - 1), c \in TailChars}

RECURSIVE ColonRuns(_)
ColonRuns(n) ==
    IF n = 0 THEN {<<>>}
    ELSE ColonRuns(n - 1) \cup {r \o <<":">> : r \in ColonRuns(n - 1)}

\* a well-formed text cut anywhere, followed by arbitrary characters
TailedTexts ==
    UNION {{SubSeq(b, 1, k) \o t : k \in 0..Len(b), t \in Tails(MaxTail)} :
              b \in {ExtendedText, BasicText}}

\* a well-formed text with one range of bytes left out
GappedTexts ==
    UNION {{SubSeq(b, 1, i) \o SubSeq(b, j + 1, Len(b)) : i \in 0..Len(b), j \in 0..Len(b)} :
              b \in {ExtendedText, BasicText}}

\* a timestamp through seconds followed by an offset block of any make
OffsetTexts ==
    {ThroughSeconds \o sg \o zh \o zc \o zm :
        sg \in Signs,
        zh \in OffsetHourTexts \cup {<<"2", "4">>, <<"-", "5">>, <<"+", "5">>, <<"1", "x">>},
        zc \in ColonRuns(MaxColons),
        zm \in OffsetMinuteTexts \cup {<<>>, <<"3">>, <<"-", "5">>, <<"+", "5">>, <<"x", "0">>}}

-----------------------------------------------------------------------------
(* The parse as a step machine *)

StartOf(sh, text) ==
    /\ shape = sh
    /\ input = text
    /\ pc = "parse_state"
    /\ state = "Year"
    /\ tzstate = "Sign"
    /\ pos = 0
    /\ pending = <<>>
    /\ values = DateTimeValues_default
    /\ result = None
    /\ consumed = <<>>
    /\ writes = <<>>

InitWellFormed ==
    \E c \in 1..8 :
    \E y \in Years, d1 \in Opt(c >= 2, Dashes), m \in Opt(c >= 2, Months),
       d2 \in Opt(c >= 3, Dashes), d \in Opt(c >= 3, Days),
       t \in Opt(c >= 4, DateTimeSeparators), time \in TimeTexts,
       c1 \in Opt(c >= 5, Colons), c2 \in Opt(c >= 6, Colons),
       sg \in Opt(c >= 7, Signs), zh \in Opt(c >= 7, OffsetHourTexts),
       zc \in Opt(c >= 8, Colons), zm \in Opt(c >= 8, OffsetMinuteTexts) :
        LET sh == [cut |-> c, y |-> y, d1 |-> d1, m |-> m, d2 |-> d2, d |-> d,
                   t |-> t, h |-> IF c >= 4 THEN time[1] ELSE <<>>,
                   c1 |-> c1, mi |-> IF c >= 5 THEN time[2] ELSE <<>>,
                   c2 |-> c2, s |-> IF c >= 6 THEN time[3] ELSE <<>>,
                   sg |-> sg, zh |-> zh, zc |-> zc, zm |-> zm]
        IN StartOf(sh, Build(sh))

InitOther ==
    \E text \in TailedTexts \cup GappedTexts \cup OffsetTexts : StartOf(NoShape, text)

Init == InitWellFormed \/ InitOther

\* where the parser goes when the descent ends
Return == pc' = "set"

\* parse_state that commits its field before the recursive call
StepParseState_commits_first ==
    /\ pc = "parse_state"
    /\ LET str == Suffix(input, pos)
           r == read_field(state, str)
       IN IF r.some
          THEN /\ values' = set(values, [state |-> state, value |-> r.v.value])
               /\ writes' = Append(writes, state)
               /\ consumed' = Append(consumed, [state |-> state,
                                                from |-> pos + r.v.from,
                                                to |-> pos + r.v.adv])
               /\ pos' = pos + r.v.adv
               /\ state' = next(state)
               /\ pc' = IF next(state) = "Timezone" THEN "timezone" ELSE "parse_state"
          ELSE /\ Return
               /\ UNCHANGED <<values, writes, consumed, pos, state>>
    /\ UNCHANGED <<input, shape, tzstate, pending, result>>

\* parse_state: one frame of the main chain, up to the recursive call
StepParseState ==
    /\ pc = "parse_state"
    /\ LET str == Suffix(input, pos)
           r == read_field(state, str)
       IN IF r.some
          THEN IF SliceFromOk(str, r.v.adv)
               THEN /\ pending' = Append(pending, [state |-> state, value |-> r.v.value])
                    /\ consumed' = Append(consumed, [state |-> state,
                                                     from |-> pos + r.v.from,
                                                     to |-> pos + r.v.adv])
                    /\ pos' = pos + r.v.adv
                    /\ state' = next(state)
                    /\ pc' = IF next(state) = "Timezone" THEN "timezone" ELSE "parse_state"
               ELSE /\ pc' = "panic"
                    /\ UNCHANGED <<pending, consumed, pos, state>>
          ELSE /\ Return
               /\ UNCHANGED <<pending, consumed, pos, state>>
    /\ UNCHANGED <<input, shape, tzstate, values, result, writes>>

\* TimezoneValues::parse: one step of the offset chain
StepTimezone(st) ==
    /\ pc = "timezone"
    /\ tzstate = st
    /\ LET str == Suffix(input, pos)
           r == tz_step(values.timezone, str, st)
       IN /\ values' = [values EXCEPT !.timezone = r.tz]
          /\ writes' = IF r.wrote THEN Append(writes, "Tz" \o st) ELSE writes
          /\ consumed' = IF r.wrote
                         THEN Append(consumed, [state |-> "Tz" \o st, from |-> pos,
                                                to |-> pos + r.adv])
                         ELSE consumed
          /\ pos' = pos + r.adv
          /\ IF r.cont
             THEN /\ tzstate' = r.nxt
                  /\ pc' = "timezone"
             ELSE /\ tzstate' = tzstate
                  /\ Return
    /\ UNCHANGED <<input, shape, state, pending, result>>

StepParseSign == StepTimezone("Sign")

StepParseHours == StepTimezone("Hours")

StepParseMinutes == StepTimezone("Minutes")

\* the pending fields set in the order they were read, outermost frame first
StepSet_outermost_first ==
    /\ pc = "set"
    /\ pending # <<>>
    /\ LET field == pending[1]
       IN /\ values' = set(values, field)
          /\ writes' = Append(writes, field.state)
    /\ pending' = SubSeq(pending, 2, Len(pending))
    /\ UNCHANGED <<input, shape, pc, state, tzstate, pos, result, consumed>>

\* parse_state after the recursive call: self.set(field), innermost frame first
StepSet ==
    /\ pc = "set"
    /\ pending # <<>>
    /\ LET field == pending[Len(pending)]
       IN /\ values' = set(values, field)
          /\ writes' = Append(writes, field.state)
    /\ pending' = SubSeq(pending, 1, Len(pending) - 1)
    /\ UNCHANGED <<input, shape, pc, state, tzstate, pos, result, consumed>>

\* parse_datetime once DateTimeValues::from has returned
StepConstruct ==
    /\ pc = "set"
    /\ pending = <<>>
    /\ result' = construct(values)
    /\ pc' = "done"
    /\ UNCHANGED <<input, shape, state, tzstate, pos, pending, values, consumed, writes>>

Next ==
    \/ StepParseState
    \/ StepParseSign
    \/ StepParseHours
    \/ StepParseMinutes
    \/ StepSet
    \/ StepConstruct

Spec == Init /\ [][Next]_vars

\* every cut of the two well-formed texts, and offsets with runs of ':'
ShortTexts ==
    {SubSeq(b, 1, k) : b \in {ExtendedText, BasicText}, k \in 0..Len(BasicText)}
      \cup {SubSeq(ExtendedText, 1, k) : k \in 0..Len(ExtendedText)}
      \cup {SubSeq(ExtendedText, 1, 22) \o zc \o zm :
               zc \in ColonRuns(MaxColons), zm \in {<<>>, <<"3", "0">>, <<"x", "0">>}}

\* the parses of the short texts, run to completion: a step that can be
\* taken is taken
InitShort == \E text \in ShortTexts : StartOf(NoShape, text)

FairSpec == InitShort /\ [][Next]_vars /\ WF_vars(Next)

-----------------------------------------------------------------------------
(* Sanity of the model *)

Done == pc = "done"

TypeOK ==
    /\ pc \in {"parse_state", "timezone", "set", "done", "panic"}
    /\ state \in MainStates \cup {"Timezone"}
    /\ tzstate \in {"Sign", "Hours", "Minutes"}
    /\ pos \in 0..Len(input)

\* the step machine computes the function from
StepsAgreeWithFrom == Done => values = from(input) /\ result = parse_datetime(input)

-----------------------------------------------------------------------------
(* Reading a text independently of the parser *)

Decimal(t) ==
    IF Len(t) = 2 THEN 10 * DigitVal[t[1]] + DigitVal[t[2]]
    ELSE 1000 * DigitVal[t[1]] + 100 * DigitVal[t[2]] + 10 * DigitVal[t[3]] + DigitVal[t[4]]

\* the value a field of a well-formed timestamp stands for, or its default
FieldOr(t, default) == IF t = <<>> THEN default ELSE Decimal(t)

\* the aggregator a well-formed timestamp of the given shape stands for
Written(sh) ==
    [year |-> FieldOr(sh.y, 1970), month |-> FieldOr(sh.m, 1), date |-> FieldOr(sh.d, 1),
     hours |-> FieldOr(sh.h, 0), minutes |-> FieldOr(sh.mi, 0), seconds |-> FieldOr(sh.s, 0),
     timezone |-> [sign |-> sh.sg # <<"-">>, hours |-> FieldOr(sh.zh, 0),
                   minutes |-> FieldOr(sh.zm, 0)]]

OffsetSeconds(tz) ==
    IF tz.sign THEN (tz.hours * 60 + tz.minutes) * 60
    ELSE 0 - (tz.hours * 60 + tz.minutes) * 60

MonthLengths(y) ==
    <<31, IF y % 400 = 0 \/ (y % 4 = 0 /\ y % 100 # 0) THEN 29 ELSE 28,
      31, 30, 31, 30, 31, 31, 30, 31, 30, 31>>

IsCalendarInstant(v) ==
    /\ v.month >= 1 /\ v.month <= 12
    /\ v.date >= 1 /\ v.date <= MonthLengths(v.year)[v.month]
    /\ v.hours <= 23 /\ v.minutes <= 59 /\ v.seconds <= 59

InstantOf(v) ==
    [year |-> v.year, month |-> v.month, date |-> v.date, hours |-> v.hours,
     minutes |-> v.minutes, seconds |-> v.seconds, offset |-> OffsetSeconds(v.timezone)]

WellFormed == shape.cut > 0

\* the entries of consumed for a parser state, and where the state's field ended
ConsumedOf(st) == {i \in 1..Len(consumed) : consumed[i].state = st}

HasConsumed(st) == ConsumedOf(st) # {}

EndOf(st) == consumed[CHOOSE i \in ConsumedOf(st) : TRUE].to

StartIn(st) == consumed[CHOOSE i \in ConsumedOf(st) : TRUE].from

-----------------------------------------------------------------------------
(* C1 *)

\* C1: a well-formed timestamp of digit-only fields, cut after any complete
\* field, parses to the fields written in the text, with the defaults
\* 1970, 1, 1, 0, 0, 0, +00:00 for the fields cut off; when these form a
\* calendar instant with an offset below 24 h, that instant is returned.
C1_WellFormedParsesToWrittenFields ==
    (Done /\ WellFormed) =>
        /\ values = Written(shape)
        /\ result.some => result.v = InstantOf(Written(shape))
        /\ (IsCalendarInstant(Written(shape))
              /\ OffsetSeconds(Written(shape).timezone) < SecsPerDay
              /\ OffsetSeconds(Written(shape).timezone) > 0 - SecsPerDay) => result.some

C1_Witness ==
    /\ Done
    /\ shape.cut = 8
    /\ result.some
    /\ result.v.year = 2024 /\ result.v.month = 2 /\ result.v.date = 29
    /\ result.v.hours = 14 /\ result.v.minutes = 15 /\ result.v.seconds = 45
    /\ result.v.offset = 0 - (23 * 60 + 30) * 60

-----------------------------------------------------------------------------
(* C2 *)

BasicForm(sh) == [sh EXCEPT !.d1 = <<>>, !.d2 = <<>>, !.c1 = <<>>, !.c2 = <<>>]

ExtendedForm(sh) ==
    [sh EXCEPT !.d1 = IF sh.cut >= 2 THEN <<"-">> ELSE <<>>,
               !.d2 = IF sh.cut >= 3 THEN <<"-">> ELSE <<>>,
               !.c1 = IF sh.cut >= 5 THEN <<":">> ELSE <<>>,
               !.c2 = IF sh.cut >= 6 THEN <<":">> ELSE <<>>]

\* C2: whichever of the separators before month, day, minute and second a
\* well-formed timestamp has, it parses to the same fields and the same
\* result as its basic form (no separator) and its extended form (all).
C2_SeparatorsDoNotMatter ==
    (Done /\ WellFormed) =>
        /\ values = from(Build(BasicForm(shape)))
        /\ values = from(Build(ExtendedForm(shape)))
        /\ result = parse_datetime(Build(BasicForm(shape)))
        /\ result = parse_datetime(Build(ExtendedForm(shape)))

C2_Witness ==
    /\ Done
    /\ shape.cut >= 6
    /\ shape.d1 = <<"-">> /\ shape.d2 = <<>>
    /\ shape.c1 = <<>> /\ shape.c2 = <<":">>
    /\ values.month = 2 /\ values.date = 11 /\ values.minutes = 15 /\ values.seconds = 45
    /\ result.some

-----------------------------------------------------------------------------
(* C3 *)

\* the byte at 0-based offset p of the input, "" past the end
ByteAt(p) == IF p < Len(input) THEN input[p + 1] ELSE ""

TwoDigitsAt(p) ==
    /\ p + 2 <= Len(input)
    /\ input[p + 1] \in Digits
    /\ input[p + 2] \in Digits

NoDateTimeSeparator == HasConsumed("Date") /\ ByteAt(EndOf("Date")) \notin {"T", " "}

\* C3 as claimed: when the character after the day field is neither 'T'
\* nor a space, the two characters at that position are read as the hour.
C3_HourReadWithoutSeparator ==
    (Done /\ NoDateTimeSeparator /\ TwoDigitsAt(EndOf("Date"))) =>
        values.hours = Decimal(SubSeq(input, EndOf("Date") + 1, EndOf("Date") + 2))

\* C3 amended: when the character after the day field is neither 'T' nor a
\* space, the parse stops at the hour state: hour, minute, second and offset
\* keep their defaults and nothing after the day field is consumed.
C3_HourNeedsSeparator ==
    (Done /\ NoDateTimeSeparator) =>
        /\ values.hours = 0 /\ values.minutes = 0 /\ values.seconds = 0
        /\ values.timezone = TimezoneValues_default
        /\ pos = EndOf("Date")
        /\ ~HasConsumed("Hours")

C3_Witness ==
    /\ Done
    /\ NoDateTimeSeparator
    /\ TwoDigitsAt(EndOf("Date"))
    /\ values.date = 11
    /\ values.hours = 0

-----------------------------------------------------------------------------
(* C4 *)

OtherSeparator(c) == IF c = "T" THEN " " ELSE "T"

\* the input with its date/time separator exchanged for the other one
SeparatorSwapped ==
    [input EXCEPT ![EndOf("Date") + 1] = OtherSeparator(input[EndOf("Date") + 1])]

\* C4: an input with 'T' after the day field and the same input with a
\* space there parse to the same fields and the same result.
C4_TAndSpaceInterchangeable ==
    (Done /\ HasConsumed("Date") /\ ByteAt(EndOf("Date")) \in {"T", " "}) =>
        /\ values = from(SeparatorSwapped)
        /\ result = parse_datetime(SeparatorSwapped)

C4_Witness ==
    /\ Done
    /\ HasConsumed("Date")
    /\ ByteAt(EndOf("Date")) = " "
    /\ values.hours = 14 /\ values.minutes = 15
    /\ result.some

-----------------------------------------------------------------------------
(* C5 *)

\* C5: with a full timestamp through seconds, the offset (+|-)HHMM parses
\* like (+|-)HH:MM, and the offset (+|-)HH parses like (+|-)HH:00.
C5_OffsetNormalization ==
    /\ (Done /\ shape.cut = 8) =>
          /\ values = from(Build([shape EXCEPT !.zc = <<>>]))
          /\ values = from(Build([shape EXCEPT !.zc = <<":">>]))
          /\ result = parse_datetime(Build([shape EXCEPT !.zc = <<>>]))
          /\ result = parse_datetime(Build([shape EXCEPT !.zc = <<":">>]))
    /\ (Done /\ shape.cut = 7) =>
          /\ values = from(Build([shape EXCEPT !.zc = <<":">>, !.zm = <<"0", "0">>]))
          /\ result = parse_datetime(Build([shape EXCEPT !.zc = <<":">>, !.zm = <<"0", "0">>]))

C5_Witness ==
    /\ Done
    /\ shape.cut = 8
    /\ shape.zc = <<>>
    /\ result.some
    /\ result.v.offset = (5 * 60 + 30) * 60

-----------------------------------------------------------------------------
(* C6 *)

SignByte == ByteAt(StartIn("TzSign"))

\* C6: the offset handed to the instant constructor is (hours * 60 +
\* minutes) * 60 seconds, negated exactly when the sign read was '-'; an
\* offset block starting with '-' never gives an offset east of UTC and
\* one starting with '+' never gives an offset west of UTC.
C6_OffsetSignCorrect ==
    (Done /\ HasConsumed("TzSign")) =>
        /\ secs(values.timezone) =
              (IF SignByte = "-" THEN 0 - 1 ELSE 1)
                 * ((values.timezone.hours * 60 + values.timezone.minutes) * 60)
        /\ SignByte = "-" => secs(values.timezone) <= 0
        /\ SignByte = "+" => secs(values.timezone) >= 0

-----------------------------------------------------------------------------
(* C7 *)

\* the parser states whose fields lie in the first i consumed fields
Through(i) == {consumed[k].state : k \in 1..i}

\* v with every field outside the states S back at its default
Kept(v, S) ==
    [year |-> IF "Year" \in S THEN v.year ELSE 1970,
     month |-> IF "Month" \in S THEN v.month ELSE 1,
     date |-> IF "Date" \in S THEN v.date ELSE 1,
     hours |-> IF "Hours" \in S THEN v.hours ELSE 0,
     minutes |-> IF "Minutes" \in S THEN v.minutes ELSE 0,
     seconds |-> IF "Seconds" \in S THEN v.seconds ELSE 0,
     timezone |-> [sign |-> IF "TzSign" \in S THEN v.timezone.sign ELSE TRUE,
                   hours |-> IF "TzHours" \in S THEN v.timezone.hours ELSE 0,
                   minutes |-> IF "TzMinutes" \in S THEN v.timezone.minutes ELSE 0]]

\* the proper prefixes of the input that end where a field ends
FieldBoundaries ==
    {i \in 1..Len(consumed) : consumed[i].state # "TzSign" /\ consumed[i].to < Len(input)}

\* C7: when the parse of the input succeeds, the parse of every proper
\* prefix that ends at a field boundary succeeds too, with the same values
\* for the fields in the prefix and the defaults for the others.
C7_PrefixMonotone ==
    (Done /\ result.some) =>
        \A i \in FieldBoundaries :
            LET p == SubSeq(input, 1, consumed[i].to) IN
            /\ parse_datetime(p).some
            /\ from(p) = Kept(values, Through(i))

\* the same for the inputs whose offset hours and minutes are digits only
C7_PrefixMonotoneOfDigitOffsets ==
    (Done /\ result.some /\ values.timezone.hours >= 0 /\ values.timezone.minutes >= 0) =>
        \A i \in FieldBoundaries :
            LET p == SubSeq(input, 1, consumed[i].to) IN
            /\ parse_datetime(p).some
            /\ from(p) = Kept(values, Through(i))

-----------------------------------------------------------------------------
(* C8 *)

\* C8: the result is absent exactly when the aggregated fields are not a
\* calendar instant or the offset is 24 h or more either way; otherwise it
\* is the instant of exactly the aggregated fields and offset.
C8_ResultIsConstructorsAnswer ==
    Done =>
        /\ result.some <=>
              /\ IsCalendarInstant(values)
              /\ OffsetSeconds(values.timezone) < SecsPerDay
              /\ OffsetSeconds(values.timezone) > 0 - SecsPerDay
        /\ result.some => result.v = InstantOf(values)

C8_Witness ==
    /\ Done
    /\ IsCalendarInstant(values)
    /\ values.timezone.hours = 24
    /\ ~result.some

-----------------------------------------------------------------------------
(* C9 *)

TwoDigitStates == {"Month", "Date", "Hours", "Minutes", "Seconds"}

\* C9: a month, day, hour, minute or second field is committed only when
\* its two characters are two decimal digits.
C9_OnlyTwoDigitsCommitted ==
    \A i \in 1..Len(consumed) :
        consumed[i].state \in TwoDigitStates =>
            /\ consumed[i].to = consumed[i].from + 2
            /\ TwoDigitsAt(consumed[i].from)

-----------------------------------------------------------------------------
(* C10 *)

I32Max == 2147483647

\* C10: the parse never aborts: the parser is always at a character
\* boundary inside the text, every field taken lies inside the text, the
\* offset in seconds fits 32 bits, and a finished parse has a result that
\* is an instant or absent.
C10_NeverAborts ==
    /\ pc # "panic"
    /\ IsCharBoundary(input, pos)
    /\ \A i \in 1..Len(consumed) :
          /\ consumed[i].from <= consumed[i].to
          /\ consumed[i].to <= Len(input)
          /\ IsCharBoundary(input, consumed[i].from)
          /\ IsCharBoundary(input, consumed[i].to)
    /\ secs(values.timezone) <= I32Max
    /\ secs(values.timezone) >= 0 - I32Max - 1
    /\ Done => (result = None \/ result.some)

C10_Witness ==
    /\ Done
    /\ \E i \in 1..Len(input) : input[i] = "CONT" /\ i - 2 = pos
    /\ Len(consumed) >= 3
    /\ ~HasConsumed("Hours")

-----------------------------------------------------------------------------
(* C11 *)

\* the position of the parser in the two chains of states, main chain first
StateOrdinal ==
    IF pc = "timezone"
    THEN CASE tzstate = "Sign" -> 7 [] tzstate = "Hours" -> 8 [] OTHER -> 9
    ELSE CASE state = "Year" -> 1 [] state = "Month" -> 2 [] state = "Date" -> 3
           [] state = "Hours" -> 4 [] state = "Minutes" -> 5 [] state = "Seconds" -> 6
           [] OTHER -> 7

Descending == pc \in {"parse_state", "timezone"}

\* a recursive call: the parser is still descending after the step
RecursiveStep == Descending /\ Descending'

\* the parse cannot make a step although it has not finished
Stuck == ~Done /\ ~ENABLED <<Next>>_vars

\* C11: every recursive step moves to a later parser state or goes on
\* with a strictly shorter rest of the text, the parse is never stuck, and
\* every parse reaches its final aggregator and result.
C11_ParseTerminates ==
    /\ [][RecursiveStep => (StateOrdinal' > StateOrdinal \/ pos' > pos)]_vars
    /\ []~Stuck
    /\ <>Done

C11_Witness ==
    /\ Done
    /\ HasConsumed("TzHours") /\ HasConsumed("TzMinutes")
    /\ StartIn("TzMinutes") = EndOf("TzHours") + 2

-----------------------------------------------------------------------------
(* C12 *)

\* the place of a field in the sequence year, month, ..., second, offset
FieldOrdinal(f) ==
    CASE f = "Year" -> 1 [] f = "Month" -> 2 [] f = "Date" -> 3 [] f = "Hours" -> 4
      [] f = "Minutes" -> 5 [] f = "Seconds" -> 6 [] OTHER -> 7

\* the place of a field in the order the parser writes: the offset parts as
\* they are read, then the main-chain fields from the second back to the year
WriteOrdinal(f) ==
    CASE f = "TzSign" -> 1 [] f = "TzHours" -> 2 [] f = "TzMinutes" -> 3
      [] f = "Seconds" -> 4 [] f = "Minutes" -> 5 [] f = "Hours" -> 6
      [] f = "Date" -> 7 [] f = "Month" -> 8 [] OTHER -> 9

\* C12 as claimed: of two fields written in one parse, the earlier one in
\* the sequence year, month, day, hour, minute, second, offset is written
\* first.
C12_WritesInFieldOrder ==
    \A i \in 1..Len(writes) : \A j \in 1..Len(writes) :
        FieldOrdinal(writes[i]) < FieldOrdinal(writes[j]) => i < j

\* C12 amended: the aggregator is written in the order offset sign, offset
\* hours, offset minutes, second, minute, hour, day, month, year: of two
\* fields written in one parse, the later one in that order is written later.
C12_WritesInnermostFirst ==
    \A i \in 1..Len(writes) : \A j \in 1..Len(writes) :
        i < j => WriteOrdinal(writes[i]) < WriteOrdinal(writes[j])

C12_Witness ==
    /\ Done
    /\ writes = <<"TzSign", "TzHours", "TzMinutes", "Seconds", "Minutes", "Hours",
                  "Date", "Month", "Year">>

-----------------------------------------------------------------------------
(* C13 *)

HasWritten(f) == \E k \in 1..Len(writes) : writes[k] = f

\* C13: a main-chain field that parsed is written only after the recursion
\* into the next state has returned, when every field read after it (the
\* offset parts included) that gets written has been written; and at the end
\* every field that parsed has been written, whether or not a later field
\* parsed.
C13_CommitAfterRecursion ==
    /\ \A i \in 1..Len(consumed) :
          (consumed[i].state \in MainStates /\ HasWritten(consumed[i].state)) =>
              /\ pc \in {"set", "done"}
              /\ \A j \in (i + 1)..Len(consumed) : HasWritten(consumed[j].state)
    /\ Done => \A i \in 1..Len(consumed) : HasWritten(consumed[i].state)

C13_Witness ==
    /\ pc = "set"
    /\ HasWritten("Date")
    /\ ~HasWritten("Month")
    /\ HasConsumed("Month")
    /\ ~HasConsumed("Hours")

-----------------------------------------------------------------------------
(* C14 *)

Previous(st) ==
    CASE st = "Month" -> "Year" [] st = "Date" -> "Month" [] st = "Hours" -> "Date"
      [] st = "Minutes" -> "Hours" [] st = "Seconds" -> "Minutes" [] OTHER -> "None"

Width(st) == IF st = "Year" THEN 4 ELSE 2

SeparatorsOf(st) ==
    CASE st \in {"Month", "Date"} -> {"-"}
      [] st = "Hours" -> {"T", " "}
      [] st \in {"Minutes", "Seconds"} -> {":"}
      [] OTHER -> {}

\* the main-chain state is entered: the fields before it have all parsed
Entered(st) == st = "Year" \/ HasConsumed(Previous(st))

EntryOf(st) == IF st = "Year" THEN 0 ELSE EndOf(Previous(st))

\* where the field of an entered state starts: after its separator, if there
FieldStartOf(st) ==
    IF ByteAt(EntryOf(st)) \in SeparatorsOf(st) THEN EntryOf(st) + 1 ELSE EntryOf(st)

\* t is a decimal number as the integer parser takes it
IsInteger(t, signed) ==
    /\ Len(t) > 0
    /\ \/ \A i \in 1..Len(t) : t[i] \in Digits
       \/ /\ Len(t) > 1
          /\ t[1] = "+" \/ (signed /\ t[1] = "-")
          /\ \A i \in 2..Len(t) : t[i] \in Digits

\* fewer characters than the width of the field remain after the prefix
TooShort(st) == FieldStartOf(st) + Width(st) > Len(input)

NotANumber(st) ==
    /\ ~TooShort(st)
    /\ ~IsInteger(SubSeq(input, FieldStartOf(st) + 1, FieldStartOf(st) + Width(st)),
                  st = "Year")

FieldValue(v, st) ==
    CASE st = "Year" -> v.year [] st = "Month" -> v.month [] st = "Date" -> v.date
      [] st = "Hours" -> v.hours [] st = "Minutes" -> v.minutes [] OTHER -> v.seconds

\* the value of the text the parser took for the field of a state
ParsedValueOf(st) ==
    field_parse(st, SubSeq(input, StartIn(st) + 1, EndOf(st))).v

OffsetParts == {"TzSign", "TzHours", "TzMinutes"}

\* the parse was cut short at the state: its field and all later ones have
\* their defaults and were never taken, the earlier ones have their values
TruncatedAt(st) ==
    /\ \A f \in MainStates :
          IF FieldOrdinal(f) < FieldOrdinal(st)
          THEN HasConsumed(f) /\ FieldValue(values, f) = ParsedValueOf(f)
          ELSE ~HasConsumed(f)
                 /\ FieldValue(values, f) = FieldValue(DateTimeValues_default, f)
    /\ values.timezone = TimezoneValues_default
    /\ \A f \in OffsetParts : ~HasConsumed(f)

\* C14: when at a main-chain state fewer characters remain than its width
\* after the prefix, or the characters are no number, then in the final
\* aggregator that field, every later field and the offset have their
\* defaults, every earlier field has its parsed value, and no later state
\* was entered.
C14_SilentTruncation ==
    Done =>
        \A st \in MainStates :
            (/\ Entered(st)
             /\ st = "Hours" => ByteAt(EntryOf(st)) \in SeparatorsOf(st)
             /\ TooShort(st) \/ NotANumber(st)) => TruncatedAt(st)

C14_Witness ==
    /\ Done
    /\ Entered("Minutes")
    /\ NotANumber("Minutes")
    /\ values.hours = 14
    /\ values.minutes = 0
    /\ \E p \in pos..(Len(input) - 3) : ByteAt(p) = "+" /\ TwoDigitsAt(p + 1)

-----------------------------------------------------------------------------
(* C15 *)

\* C15: in every state of a parse each field of the aggregator has its
\* default or the value parsed from the field's own text, and no field is
\* written twice.
C15_DefaultOrOwnValue ==
    /\ \A f \in MainStates :
          \/ FieldValue(values, f) = FieldValue(DateTimeValues_default, f)
          \/ HasConsumed(f) /\ FieldValue(values, f) = ParsedValueOf(f)
    /\ \/ values.timezone.sign = TRUE
       \/ HasConsumed("TzSign") /\ ByteAt(StartIn("TzSign")) = "-"
    /\ \/ values.timezone.hours = 0
       \/ /\ HasConsumed("TzHours")
          /\ values.timezone.hours =
                ParseInt(SubSeq(input, StartIn("TzHours") + 1, EndOf("TzHours")), TRUE).v
    /\ \/ values.timezone.minutes = 0
       \/ /\ HasConsumed("TzMinutes")
          /\ values.timezone.minutes =
                ParseInt(SubSeq(input, StartIn("TzMinutes") + 1, EndOf("TzMinutes")), TRUE).v
    /\ \A i \in 1..Len(writes) : \A j \in 1..Len(writes) : writes[i] = writes[j] => i = j

C15_Witness ==
    /\ pc = "set"
    /\ values.timezone = [sign |-> FALSE, hours |-> 23, minutes |-> 99]
    /\ values.seconds = 45
    /\ values.minutes = 0
    /\ HasConsumed("Minutes")
    /\ ParsedValueOf("Minutes") = 15

-----------------------------------------------------------------------------
(* C16 *)

\* a sign and two digits stand somewhere in the text not yet read
OffsetBlockAhead ==
    \E p \in pos..(Len(input) - 3) : ByteAt(p) \in {"+", "-"} /\ TwoDigitsAt(p + 1)

\* C16: the offset parser is entered only after year, month, day, hour,
\* minute and second have all parsed; when one of them has not, the offset
\* has its default and no offset part was taken, whatever the text holds.
C16_OffsetOnlyAfterSeconds ==
    /\ pc = "timezone" => \A f \in MainStates : HasConsumed(f)
    /\ (\E f \in MainStates : ~HasConsumed(f)) =>
          /\ values.timezone = TimezoneValues_default
          /\ \A f \in OffsetParts : ~HasConsumed(f)
          /\ Done => (result.some => result.v.offset = 0)

C16_Witness ==
    /\ Done
    /\ HasConsumed("Minutes")
    /\ ~HasConsumed("Seconds")
    /\ OffsetBlockAhead
    /\ values.timezone = TimezoneValues_default
    /\ result.some

-----------------------------------------------------------------------------
(* C17 *)

\* C17: the offset hours are recorded only if the two characters read are
\* both decimal digits; otherwise the parse stops with the sign recorded and
\* the offset hours and minutes 0.
C17_OffsetHoursOnlyDigits ==
    /\ HasConsumed("TzHours") => TwoDigitsAt(StartIn("TzHours"))
    /\ (Done /\ HasConsumed("TzSign") /\ ~TwoDigitsAt(EndOf("TzSign"))) =>
          /\ values.timezone.hours = 0
          /\ values.timezone.minutes = 0
          /\ values.timezone.sign = (SignByte = "+")

-----------------------------------------------------------------------------
(* C18 *)

\* the ':' characters the minutes step has skipped so far
ColonsSkipped ==
    IF ~HasConsumed("TzHours") THEN 0
    ELSE IF HasConsumed("TzMinutes") THEN StartIn("TzMinutes") - EndOf("TzHours")
    ELSE pos - EndOf("TzHours")

\* C18: the parse takes at most 7 steps in the main chain and 3 in the
\* offset chain; the minutes step skips at most one ':' before the minute
\* digits, so that +05::30 leaves the offset minutes 0.
C18_AtMostOneColonSkipped ==
    /\ Cardinality({i \in 1..Len(consumed) : consumed[i].state \in MainStates}) <= 6
    /\ ColonsSkipped <= 1
    /\ (HasConsumed("TzHours") /\ EndOf("TzHours") + 2 <= Len(input)
          /\ ByteAt(EndOf("TzHours")) = ":" /\ ByteAt(EndOf("TzHours") + 1) = ":")
         => values.timezone.minutes = 0

-----------------------------------------------------------------------------
(* C19 *)

\* the input up to the end of the offset minutes
ThroughOffsetMinutes == SubSeq(input, 1, EndOf("TzMinutes"))

\* C19: once the offset minutes are read, the rest of the text is not
\* looked at: the input parses to the fields and the result of its part up
\* to the end of the offset minutes, and the parser stops there.
C19_RestIgnored ==
    (Done /\ HasConsumed("TzMinutes")) =>
        /\ pos = EndOf("TzMinutes")
        /\ values = from(ThroughOffsetMinutes)
        /\ result = parse_datetime(ThroughOffsetMinutes)

C19_Witness ==
    /\ Done
    /\ HasConsumed("TzMinutes")
    /\ Len(input) = EndOf("TzMinutes") + 2
    /\ TwoDigitsAt(EndOf("TzMinutes"))
    /\ values.timezone = [sign |-> TRUE, hours |-> 5, minutes |-> 30]
    /\ result.some

-----------------------------------------------------------------------------
(* C20 *)

LargestOffsetSeconds == (99 * 60 + 99) * 60

Magnitude(n) == IF n < 0 THEN 0 - n ELSE n

\* C20: the offset minutes are not range-checked: a well-formed full
\* timestamp of a calendar instant with offset (+|-)HH[:]MM where MM is
\* 60..99 and (HH * 60 + MM) * 60 < 86400 parses to the instant with offset
\* (HH * 60 + MM) * 60 seconds of that sign; and the offset is never above
\* (99 * 60 + 99) * 60 seconds in magnitude, far inside 32 bits.
C20_OffsetMinutesNotRangeChecked ==
    /\ (/\ Done
        /\ shape.cut = 8
        /\ IsCalendarInstant(Written(shape))
        /\ Decimal(shape.zm) >= 60
        /\ (Decimal(shape.zh) * 60 + Decimal(shape.zm)) * 60 < SecsPerDay) =>
          /\ result.some
          /\ result.v.offset =
                (IF shape.sg = <<"-">> THEN 0 - 1 ELSE 1)
                   * ((Decimal(shape.zh) * 60 + Decimal(shape.zm)) * 60)
    /\ Magnitude(secs(values.timezone)) <= LargestOffsetSeconds
    /\ LargestOffsetSeconds <= I32Max

C20_Witness ==
    /\ Done
    /\ shape.cut = 8
    /\ shape.zh = <<"0", "5">> /\ shape.zm = <<"9", "9">> /\ shape.sg = <<"-">>
    /\ result.some
    /\ result.v.offset = 0 - 23940

====
